---- MODULE Spec2Model ----
(***************************************************************************)
(* A model of the QOI codec of src/src/qoi.rs: qoi_encode and qoi_decode   *)
(* as step machines (one action per loop iteration), with the byte-level   *)
(* arithmetic of the source (u8 / i8 wrapping, bit operations, big-endian  *)
(* conversion, usize multiplication with its build-dependent overflow).    *)
(***************************************************************************)
EXTENDS Integers, Sequences, FiniteSets, TLC

VARIABLES
    pixels,          \* qoi_encode: the `pixels: &[u8]` argument (run-length form, see BufLen)
    desc,            \* qoi_encode: the `desc: &QoiDescriptor` argument
    enc_pc,          \* qoi_encode: "call", "loop", "done", "err", "panic"
    bytes,           \* qoi_encode: the output Vec<u8>
    pixel_previous,  \* qoi_encode: previous pixel
    index,           \* qoi_encode: the 64-slot cache
    run,             \* qoi_encode: the in-flight run counter (u8)
    pixel_pos,       \* qoi_encode: the loop variable
    enc_ret,         \* qoi_encode: the returned Result (or the panic)
    data,            \* qoi_decode: the bytes behind `data: impl Read`
    cursor,          \* qoi_decode: how many bytes of data have been read
    channels,        \* qoi_decode: the `channels: Option<ChanelMode>` argument ({} is None)
    dec_pc,          \* qoi_decode: "call", "loop", "done", "err"
    dec_desc,        \* qoi_decode: the descriptor built from the header
    dec_index,       \* qoi_decode: the 64-slot cache
    dec_pixel,       \* qoi_decode: the current pixel
    dec_run,         \* qoi_decode: the in-flight run counter (u8)
    dec_pixels,      \* qoi_decode: the output Vec<u8>
    dec_todo,        \* qoi_decode: loop iterations left
    dec_ret          \* qoi_decode: the returned Result

enc_vars == <<pixels, desc, enc_pc, bytes, pixel_previous, index, run, pixel_pos, enc_ret>>
dec_vars == <<data, cursor, channels, dec_pc, dec_desc, dec_index, dec_pixel, dec_run,
              dec_pixels, dec_todo, dec_ret>>
vars == <<enc_vars, dec_vars>>

----------------------------------------------------------------------------
(* Types and constants of the source *)

Rgb == 3
Rgba == 4
Srgb == 0
Linear == 1

Descriptor(w, h, ch, cs) == [width |-> w, height |-> h, channels |-> ch, colorspace |-> cs]

QoiRGBA(r, g, b, a) == [r |-> r, g |-> g, b |-> b, a |-> a]

QOI_OP_INDEX == 0
QOI_OP_DIFF == 64
QOI_OP_LUMA == 128
QOI_OP_RUN == 192
QOI_OP_RGB == 254
QOI_OP_RGBA == 255
QOI_MASK == 192

QOI_HEADER_SIZE == 14
QOI_PIXELS_MAX == 400000000
QOI_PADDING_SIZE == 8
QOI_PADDING == <<0, 0, 0, 0, 0, 0, 0, 1>>
QOI_MAGIC == <<113, 111, 105, 102>>   \* b"qoif"

\* The longest image whose pixel loop is run, and the longest enumerated image.
MaxLoop == 400
MaxPixels == 2
MaxOps == 3

\* The run length at which the encoder flushes a run.
RunFlush == 62

color_hash(pixel) == pixel.r * 3 + pixel.g * 5 + pixel.b * 7 + pixel.a * 11

----------------------------------------------------------------------------
(* Machine arithmetic *)

\* u8 bit operations, bit by bit.
RECURSIVE BitOp(_, _, _, _)
BitOp(op, x, y, n) ==
    IF n = 0 THEN 0
    ELSE LET bx == x % 2
             by == y % 2
             bit == IF op = "or" THEN (IF bx + by > 0 THEN 1 ELSE 0)
                                 ELSE (IF bx + by = 2 THEN 1 ELSE 0)
         IN bit + 2 * BitOp(op, x \div 2, y \div 2, n - 1)

Or8(x, y) == BitOp("or", x, y, 8)
And8(x, y) == BitOp("and", x, y, 8)
Shl8(x, k) == (x * (2 ^ k)) % 256
Shr8(x, k) == x \div (2 ^ k)

\* `as i8` of a u8 and `as u8` of an i8.
AsI8(x) == IF x >= 128 THEN x - 256 ELSE x
AsU8(x) == (x + 256) % 256

\* The delta added without wraparound, held at the limits of the byte.
SaturatingAddSigned(x, d) == IF x + d > 255 THEN 255 ELSE IF x + d < 0 THEN 0 ELSE x + d

\* u8::wrapping_sub, i8::wrapping_sub, u8::wrapping_add_signed.
WrappingSubU8(x, y) == (x - y + 256) % 256
WrappingSubI8(x, y) == AsI8((x - y + 512) % 256)
WrappingAddSigned(x, d) == (x + d + 256) % 256

\* The four bytes in little-endian order.
ToLeBytes(v) ==
    <<v % 256, (v \div 256) % 256, (v \div 65536) % 256, (v \div 16777216) % 256>>

\* u32::to_be_bytes of `v as u32`, and u32::from_be_bytes.
ToBeBytes(v) ==
    <<(v \div 16777216) % 256, (v \div 65536) % 256, (v \div 256) % 256, v % 256>>
FromBeBytes(b) == ((b[1] * 256 + b[2]) * 256 + b[3]) * 256 + b[4]

\* usize is UsizeLimbs bytes wide (a 32-bit target). A usize is kept as its
\* little-endian bytes where a product may leave the range.
UsizeLimbs == 4
Limbs(v) == [i \in 0..(UsizeLimbs - 1) |-> (v \div (256 ^ i)) % 256]

RECURSIVE Column(_, _, _, _)
Column(x, y, k, i) ==
    IF i < 0 THEN 0
    ELSE (IF i < UsizeLimbs /\ k - i < UsizeLimbs /\ k - i >= 0 THEN x[i] * y[k - i] ELSE 0)
         + Column(x, y, k, i - 1)

RECURSIVE Carried(_, _, _, _)
Carried(x, y, k, carry) ==
    IF k = 2 * UsizeLimbs THEN <<>>
    ELSE LET s == Column(x, y, k, k) + carry
         IN <<s % 256>> \o Carried(x, y, k + 1, s \div 256)

\* usize * usize: the wrapped product and whether the true product overflowed.
UsizeMul(x, y) ==
    LET full == Carried(x, y, 0, 0)
    IN [val |-> [i \in 0..(UsizeLimbs - 1) |-> full[i + 1]],
        overflow |-> \E i \in (UsizeLimbs + 1)..(2 * UsizeLimbs) : full[i] # 0]

----------------------------------------------------------------------------
(* The pixel buffer: a sequence of segments, each a byte pattern repeated   *)
(* n times, so that buffers of 10^9 bytes can be written down.             *)

RECURSIVE BufLen(_)
BufLen(buf) ==
    IF buf = <<>> THEN 0 ELSE Len(Head(buf).pat) * Head(buf).n + BufLen(Tail(buf))

\* pixels[i], i from 0.
RECURSIVE BufAt(_, _)
BufAt(buf, i) ==
    LET seg == Head(buf)
        l == Len(seg.pat) * seg.n
    IN IF i < l THEN seg.pat[(i % Len(seg.pat)) + 1] ELSE BufAt(Tail(buf), i - l)

PixLen == BufLen(pixels)

\* Alpha 0 for the pixels of an RGB buffer.
PixelAtAlphaZero(buf, pos, ch) ==
    IF ch = Rgba
    THEN QoiRGBA(BufAt(buf, pos), BufAt(buf, pos + 1), BufAt(buf, pos + 2), BufAt(buf, pos + 3))
    ELSE QoiRGBA(BufAt(buf, pos), BufAt(buf, pos + 1), BufAt(buf, pos + 2), 0)

\* lines 164-177: the pixel at pixel_pos, alpha 255 in RGB mode.
PixelAt(buf, pos, ch) ==
    IF ch = Rgba
    THEN QoiRGBA(BufAt(buf, pos), BufAt(buf, pos + 1), BufAt(buf, pos + 2), BufAt(buf, pos + 3))
    ELSE QoiRGBA(BufAt(buf, pos), BufAt(buf, pos + 1), BufAt(buf, pos + 2), 255)

ZeroIndex == [i \in 0..63 |-> QoiRGBA(0, 0, 0, 0)]
StartPixel == QoiRGBA(0, 0, 0, 255)

NoRet == [tag |-> "none", bytes |-> <<>>, err |-> ""]
NoDesc == [width |-> 0, height |-> 0, channels |-> 0, colorspace |-> 0]
NoDecRet == [tag |-> "none", pixels |-> <<>>, desc |-> NoDesc, err |-> ""]

----------------------------------------------------------------------------
(* qoi_encode *)

\* lines 133-136: the assertion on the buffer length. The product is computed in
\* usize: with overflow checks (a debug build) an overflowing product panics,
\* without them (a release build) it wraps and the wrapped value is compared.
AssertOutcomes(len, d) ==
    LET wh == UsizeMul(Limbs(d.width), Limbs(d.height))
        whc == UsizeMul(wh.val, Limbs(d.channels))
        cmp == IF whc.val = Limbs(len) THEN "pass" ELSE "assertion failed"
    IN IF wh.overflow \/ whc.overflow THEN {"attempt to multiply with overflow", cmp}
       ELSE {cmp}

\* The zero check on the width alone.
ZeroCheckWidth(d) == d.width = 0

\* lines 138-140
ZeroCheck(d) == d.width = 0 \/ d.height = 0

\* The limit check with > for >=.
PixelsMaxCheckStrict(d) == d.height > QOI_PIXELS_MAX \div d.width

\* lines 142-144
PixelsMaxCheck(d) == d.height >= QOI_PIXELS_MAX \div d.width

\* lines 138-144: the error qoi_encode returns for the descriptor, "" when none.
EncodeCheck(d) ==
    IF ZeroCheck(d) THEN "zero width or height"
    ELSE IF PixelsMaxCheck(d) THEN "exceeded maximum safe pixel count"
    ELSE ""

\* lines 151-154: the header.
EncodeHeader(d) ==
    QOI_MAGIC \o ToBeBytes(d.width) \o ToBeBytes(d.height) \o <<d.channels, d.colorspace>>

\* The capacity reserved without the byte of the op tag.
MaxSizeNoTag(d) == d.width * d.height * d.channels + QOI_HEADER_SIZE + QOI_PADDING_SIZE

\* lines 146-148: the reserved capacity.
MaxSize(d) == d.width * d.height * (d.channels + 1) + QOI_HEADER_SIZE + QOI_PADDING_SIZE

EncodeBegin ==
    /\ enc_pc = "call"
    /\ \E a \in AssertOutcomes(PixLen, desc) :
         IF a # "pass"
         THEN /\ enc_pc' = "panic"
              /\ enc_ret' = [tag |-> "panic", bytes |-> <<>>, err |-> a]
              /\ UNCHANGED <<bytes, pixel_previous, index, run, pixel_pos>>
         ELSE IF EncodeCheck(desc) # ""
         THEN /\ enc_pc' = "err"
              /\ enc_ret' = [tag |-> "Err", bytes |-> <<>>, err |-> EncodeCheck(desc)]
              /\ UNCHANGED <<bytes, pixel_previous, index, run, pixel_pos>>
         ELSE /\ enc_pc' = "loop"
              /\ bytes' = EncodeHeader(desc)
              /\ pixel_previous' = StartPixel
              /\ index' = ZeroIndex
              /\ run' = 0
              /\ pixel_pos' = 0
              /\ UNCHANGED enc_ret
    /\ UNCHANGED <<pixels, desc>>
    /\ UNCHANGED dec_vars

InRange(x, lo, hi) == lo <= x /\ x <= hi

\* lines 197-223: the op written for a pixel that missed the cache.
EncodeDelta(pixel, prev) ==
    IF pixel.a = prev.a
    THEN LET dr == AsI8(WrappingSubU8(pixel.r, prev.r))
             dg == AsI8(WrappingSubU8(pixel.g, prev.g))
             db == AsI8(WrappingSubU8(pixel.b, prev.b))
             dg_dr == WrappingSubI8(dr, dg)
             dg_db == WrappingSubI8(db, dg)
         IN IF InRange(dr, -2, 1) /\ InRange(dg, -2, 1) /\ InRange(db, -2, 1)
            THEN <<Or8(Or8(Or8(QOI_OP_DIFF, Shl8(AsU8(dr + 2), 4)), Shl8(AsU8(dg + 2), 2)),
                       AsU8(db + 2))>>
            ELSE IF InRange(dg_dr, -8, 7) /\ InRange(dg_db, -8, 7) /\ InRange(dg, -32, 31)
            THEN <<Or8(QOI_OP_LUMA, AsU8(dg + 32)),
                   Or8(Shl8(AsU8(dg_dr + 8), 4), AsU8(dg_db + 8))>>
            ELSE <<QOI_OP_RGB, pixel.r, pixel.g, pixel.b>>
    ELSE <<QOI_OP_RGBA, pixel.r, pixel.g, pixel.b, pixel.a>>

\* No cache write for a pixel written as the RGBA op.
EncodeOpNoRgbaWrite(pixel, prev, idx) ==
    LET index_pos == color_hash(pixel) % 64
    IN IF idx[index_pos] = pixel
       THEN [out |-> <<Or8(QOI_OP_INDEX, index_pos)>>, index |-> idx]
       ELSE [out |-> EncodeDelta(pixel, prev),
             index |-> IF pixel.a = prev.a THEN [idx EXCEPT ![index_pos] = pixel] ELSE idx]

\* The diff op tried before the cache.
EncodeOpDiffFirst(pixel, prev, idx) ==
    LET index_pos == color_hash(pixel) % 64
        delta == EncodeDelta(pixel, prev)
    IN IF idx[index_pos] = pixel /\ Len(delta) > 1
       THEN [out |-> <<Or8(QOI_OP_INDEX, index_pos)>>, index |-> idx]
       ELSE [out |-> delta, index |-> [idx EXCEPT ![index_pos] = pixel]]

\* lines 190-224: a pixel that differs from the previous one.
EncodeOp(pixel, prev, idx) ==
    LET index_pos == color_hash(pixel) % 64
    IN IF idx[index_pos] = pixel
       THEN [out |-> <<Or8(QOI_OP_INDEX, index_pos)>>, index |-> idx]
       ELSE [out |-> EncodeDelta(pixel, prev), index |-> [idx EXCEPT ![index_pos] = pixel]]

\* No flush of the run at the last pixel.
EncodeStepNoEndFlush(pixel, prev, idx, r, last) ==
    IF pixel = prev
    THEN IF r + 1 = RunFlush
         THEN [out |-> <<Or8(QOI_OP_RUN, r + 1 - 1)>>, index |-> idx, run |-> 0]
         ELSE [out |-> <<>>, index |-> idx, run |-> r + 1]
    ELSE LET flush == IF r > 0 THEN <<Or8(QOI_OP_RUN, r - 1)>> ELSE <<>>
             op == EncodeOp(pixel, prev, idx)
         IN [out |-> flush \o op.out, index |-> op.index, run |-> 0]

\* The run flushed when the counter has filled all six bits.
EncodeStepLateFlush(pixel, prev, idx, r, last) ==
    IF pixel = prev
    THEN IF r + 1 = 64 \/ last
         THEN [out |-> <<Or8(QOI_OP_RUN, r + 1 - 1)>>, index |-> idx, run |-> 0]
         ELSE [out |-> <<>>, index |-> idx, run |-> r + 1]
    ELSE LET flush == IF r > 0 THEN <<Or8(QOI_OP_RUN, r - 1)>> ELSE <<>>
             op == EncodeOp(pixel, prev, idx)
         IN [out |-> flush \o op.out, index |-> op.index, run |-> 0]

\* lines 178-226: one iteration of the loop; last is pixel_pos == pixel_end.
EncodeStep(pixel, prev, idx, r, last) ==
    IF pixel = prev
    THEN IF r + 1 = RunFlush \/ last
         THEN [out |-> <<Or8(QOI_OP_RUN, r + 1 - 1)>>, index |-> idx, run |-> 0]
         ELSE [out |-> <<>>, index |-> idx, run |-> r + 1]
    ELSE LET flush == IF r > 0 THEN <<Or8(QOI_OP_RUN, r - 1)>> ELSE <<>>
             op == EncodeOp(pixel, prev, idx)
         IN [out |-> flush \o op.out, index |-> op.index, run |-> 0]

\* line 160
PixelEnd(buf, d) == BufLen(buf) - d.channels

EncodePixel ==
    /\ enc_pc = "loop"
    /\ pixel_pos < PixLen
    /\ desc.width * desc.height <= MaxLoop
    /\ LET pixel == PixelAt(pixels, pixel_pos, desc.channels)
           s == EncodeStep(pixel, pixel_previous, index, run,
                           pixel_pos = PixelEnd(pixels, desc))
       IN /\ bytes' = bytes \o s.out
          /\ index' = s.index
          /\ run' = s.run
          /\ pixel_previous' = pixel
    /\ pixel_pos' = pixel_pos + desc.channels
    /\ UNCHANGED <<pixels, desc, enc_pc, enc_ret>>
    /\ UNCHANGED dec_vars

\* lines 228-230
EncodeEnd ==
    /\ enc_pc = "loop"
    /\ pixel_pos >= PixLen
    /\ bytes' = bytes \o QOI_PADDING
    /\ enc_pc' = "done"
    /\ enc_ret' = [tag |-> "Ok", bytes |-> bytes', err |-> ""]
    /\ UNCHANGED <<pixels, desc, pixel_previous, index, run, pixel_pos>>
    /\ UNCHANGED dec_vars

----------------------------------------------------------------------------
(* qoi_decode *)

EofError == "failed to fill whole buffer"

\* Option<ChanelMode>: None is {}, Some(c) is {c}.
None == {}
Some(c) == {c}
Unwrap(o) == CHOOSE c \in o : TRUE

\* A read that fills what the stream has left and leaves the rest of the
\* zeroed buffer as it is (read for read_exact).
ReadShort(d, cur, n) ==
    [ok |-> TRUE, buf |-> [i \in 1..n |-> IF cur + i <= Len(d) THEN d[cur + i] ELSE 0]]

\* lines 244, 250, 256: read_exact of n bytes after the first cur bytes of the
\* stream: the bytes, or an error when the stream ends before the n-th.
ReadExact(d, cur, n) ==
    IF cur + n <= Len(d)
    THEN [ok |-> TRUE, buf |-> SubSeq(d, cur + 1, cur + n)]
    ELSE [ok |-> FALSE, buf |-> <<>>]

\* line 258
MagicOk(header_magic) == FromBeBytes(header_magic) = FromBeBytes(QOI_MAGIC)

\* The channel byte validated also when a mode is forced.
ChannelByteStrict(forced, b) == b \in {3, 4}

\* lines 265-277: the channel byte is read and, when a mode is forced, dropped.
ChannelByteOk(forced, b) == forced # None \/ b \in {3, 4}
ChannelMode(forced, b) == IF forced # None THEN Unwrap(forced) ELSE b

\* No check of the colorspace byte.
ColorspaceAny(b) == b \in 0..255

\* lines 279-285
ColorspaceOk(b) == b \in {0, 1}

HeaderError(msg) == [err |-> msg, desc |-> NoDesc]

\* lines 255-300: the header. Returns the error ("" when none) and the descriptor.
DecodeHeader(d, forced) ==
    LET magic == ReadExact(d, 0, 4)
        width == ReadExact(d, 4, 4)
        height == ReadExact(d, 8, 4)
        chan == ReadExact(d, 12, 1)
        cs == ReadExact(d, 13, 1)
    IN IF ~magic.ok THEN HeaderError(EofError)
       ELSE IF ~MagicOk(magic.buf) THEN HeaderError("unexpected header")
       ELSE IF ~width.ok \/ ~height.ok \/ ~chan.ok THEN HeaderError(EofError)
       ELSE IF ~ChannelByteOk(forced, chan.buf[1])
       THEN HeaderError("unexpected number of color channels")
       ELSE IF ~cs.ok THEN HeaderError(EofError)
       ELSE IF ~ColorspaceOk(cs.buf[1]) THEN HeaderError("unexpected colorspace")
       ELSE LET hd == Descriptor(FromBeBytes(width.buf), FromBeBytes(height.buf),
                                 ChannelMode(forced, chan.buf[1]), cs.buf[1])
            IN IF hd.width = 0 \/ hd.height = 0 THEN HeaderError("width or height is zero")
               ELSE IF hd.height >= QOI_PIXELS_MAX \div hd.width
               THEN HeaderError("exceeded maximum safe pixel count")
               ELSE [err |-> "", desc |-> hd]

\* One iteration too many.
LoopCountPlusOne(d) == d.width * d.height + 1

\* lines 302, 309: the iterations of (0..pixel_len).step_by(channels)
LoopCount(d) == (d.width * d.height * d.channels + d.channels - 1) \div d.channels

\* lines 315-346: the bytes an op reads after its first byte.
OpArgs(op_byte) ==
    IF op_byte = QOI_OP_RGB THEN 3
    ELSE IF op_byte = QOI_OP_RGBA THEN 4
    ELSE IF And8(op_byte, QOI_MASK) = QOI_OP_LUMA THEN 1
    ELSE 0

\* lines 327-329: the deltas a diff op carries.
DiffDeltas(op_byte) ==
    [dr |-> And8(Shr8(op_byte, 4), 3) - 2,
     dg |-> And8(Shr8(op_byte, 2), 3) - 2,
     db |-> And8(op_byte, 3) - 2]

\* lines 335-339: the deltas a luma op and its second byte carry.
LumaDeltas(op_byte, delta_byte) ==
    LET dg == And8(op_byte, 63) - 32
    IN [dr |-> dg - 8 + And8(Shr8(delta_byte, 4), 15),
        dg |-> dg,
        db |-> dg - 8 + And8(delta_byte, 15)]

\* lines 330-332, 340-342
ApplyDeltas(pixel, d) ==
    [pixel EXCEPT !.r = WrappingAddSigned(pixel.r, d.dr),
                  !.g = WrappingAddSigned(pixel.g, d.dg),
                  !.b = WrappingAddSigned(pixel.b, d.db)]

\* lines 315-343: the pixel after the op; arg is the sequence of bytes after op_byte.
DecodeOp(op_byte, arg, pixel, idx) ==
    IF op_byte = QOI_OP_RGB
    THEN [pixel EXCEPT !.r = arg[1], !.g = arg[2], !.b = arg[3]]
    ELSE IF op_byte = QOI_OP_RGBA
    THEN [pixel EXCEPT !.r = arg[1], !.g = arg[2], !.b = arg[3], !.a = arg[4]]
    ELSE IF And8(op_byte, QOI_MASK) = QOI_OP_INDEX
    THEN idx[op_byte]
    ELSE IF And8(op_byte, QOI_MASK) = QOI_OP_DIFF
    THEN ApplyDeltas(pixel, DiffDeltas(op_byte))
    ELSE IF And8(op_byte, QOI_MASK) = QOI_OP_LUMA
    THEN ApplyDeltas(pixel, LumaDeltas(op_byte, arg[1]))
    ELSE pixel

\* The run op read as if it carried the run length, not the run length minus one.
DecodeRunLength(op_byte, r) ==
    IF op_byte # QOI_OP_RGB /\ op_byte # QOI_OP_RGBA /\ And8(op_byte, QOI_MASK) = QOI_OP_RUN
    THEN And8(op_byte, 63) + 1
    ELSE r

\* lines 344-346: the run counter after the op.
DecodeRun(op_byte, r) ==
    IF op_byte # QOI_OP_RGB /\ op_byte # QOI_OP_RGBA /\ And8(op_byte, QOI_MASK) = QOI_OP_RUN
    THEN And8(op_byte, 63)
    ELSE r

\* The slot computed without the alpha channel.
DecodeIndexWriteNoAlpha(op_byte, pixel, idx) ==
    [idx EXCEPT ![(pixel.r * 3 + pixel.g * 5 + pixel.b * 7) % 64] = pixel]

\* line 348: the cache write that ends the branch that read an op.
DecodeIndexWrite(op_byte, pixel, idx) == [idx EXCEPT ![color_hash(pixel) % 64] = pixel]

\* lines 351-357
PushPixel(out, pixel, ch) ==
    IF ch = 4 THEN out \o <<pixel.r, pixel.g, pixel.b, pixel.a>>
    ELSE out \o <<pixel.r, pixel.g, pixel.b>>

\* The cache written with the pixel before the op, not the pixel after it.
DecodeStepStaleWrite(d, st, ch) ==
    IF st.run > 0
    THEN [st EXCEPT !.run = st.run - 1, !.pixels = PushPixel(st.pixels, st.pixel, ch)]
    ELSE LET op == ReadExact(d, st.cursor, 1)
         IN IF ~op.ok THEN [st EXCEPT !.err = EofError]
            ELSE LET op_byte == op.buf[1]
                     arg == ReadExact(d, st.cursor + 1, OpArgs(op_byte))
                 IN IF ~arg.ok THEN [st EXCEPT !.err = EofError]
                    ELSE LET px == DecodeOp(op_byte, arg.buf, st.pixel, st.index)
                         IN [cursor |-> st.cursor + 1 + OpArgs(op_byte),
                             pixel |-> px,
                             index |-> DecodeIndexWrite(op_byte, st.pixel, st.index),
                             run |-> DecodeRun(op_byte, st.run),
                             pixels |-> PushPixel(st.pixels, px, ch),
                             err |-> ""]

\* lines 310-357: one iteration of the loop on the state st =
\* [cursor, pixel, index, run, pixels]; err is "" unless a read failed.
DecodeStep(d, st, ch) ==
    IF st.run > 0
    THEN [st EXCEPT !.run = st.run - 1, !.pixels = PushPixel(st.pixels, st.pixel, ch)]
    ELSE LET op == ReadExact(d, st.cursor, 1)
         IN IF ~op.ok THEN [st EXCEPT !.err = EofError]
            ELSE LET op_byte == op.buf[1]
                     arg == ReadExact(d, st.cursor + 1, OpArgs(op_byte))
                 IN IF ~arg.ok THEN [st EXCEPT !.err = EofError]
                    ELSE LET px == DecodeOp(op_byte, arg.buf, st.pixel, st.index)
                         IN [cursor |-> st.cursor + 1 + OpArgs(op_byte),
                             pixel |-> px,
                             index |-> DecodeIndexWrite(op_byte, px, st.index),
                             run |-> DecodeRun(op_byte, st.run),
                             pixels |-> PushPixel(st.pixels, px, ch),
                             err |-> ""]

DecState == [cursor |-> cursor, pixel |-> dec_pixel, index |-> dec_index, run |-> dec_run,
             pixels |-> dec_pixels, err |-> ""]

----------------------------------------------------------------------------
(* The inputs of the two calls *)

\* The colours the enumerated images are made of: the start pixel (a run at the
\* first pixel), the initial content of the cache, a wrapping diff, a luma
\* delta, a full RGB pixel, the same with another alpha, and a second colour
\* of cache slot 53.
Palette(ch) ==
    IF ch = Rgba
    THEN {<<0, 0, 0, 255>>, <<0, 0, 0, 0>>, <<1, 255, 0, 255>>, <<18, 20, 25, 255>>,
          <<128, 7, 200, 255>>, <<128, 7, 200, 128>>}
    ELSE {<<0, 0, 0>>, <<1, 255, 0>>, <<18, 20, 25>>, <<128, 7, 200>>, <<0, 64, 0>>}

RECURSIVE Flatten(_)
Flatten(ps) == IF ps = <<>> THEN <<>> ELSE Head(ps) \o Flatten(Tail(ps))

Segment(pat, n) == [pat |-> pat, n |-> n]

\* Every image of at most MaxPixels palette pixels, in every shape; both
\* colorspaces for one pixel, one colorspace per shape for more.
Colorspaces(n, w) == IF n = 1 THEN {Srgb, Linear} ELSE IF w = 1 THEN {Linear} ELSE {Srgb}

SmallImages ==
    UNION { UNION { { [pixels |-> <<Segment(Flatten(ps), 1)>>,
                       desc |-> Descriptor(w, n \div w, ch, cs)] :
                      ps \in [1..n -> Palette(ch)], cs \in Colorspaces(n, w) } :
                    w \in {w \in 1..n : n % w = 0}, ch \in {Rgb, Rgba} } :
            n \in 1..MaxPixels }

\* The images of the tests of the source (lines 369, 386, 403), and images with
\* long runs: a run of exactly RunFlush pixels, and of one pixel more, before a
\* differing pixel, a run that lasts to the end of a wide image, and a run of
\* the start pixel.
TestImages ==
    { [pixels |-> <<Segment(ps, 1)>>, desc |-> Descriptor(Len(ps) \div 3, 1, Rgb, Linear)] :
        ps \in { <<255, 0, 0, 15, 1, 255, 255, 255, 191, 255, 0, 0, 15, 1, 74>>,
                 <<0, 0, 1, 0, 0, 0, 0, 0, 1>>,
                 <<0, 0, 0, 0, 0, 1>> } }

LongImages ==
    { [pixels |-> <<Segment(<<7, 7, 7>>, RunFlush + 1), Segment(<<9, 8, 7>>, 1)>>,
       desc |-> Descriptor(RunFlush + 2, 1, Rgb, Srgb)],
      [pixels |-> <<Segment(<<7, 7, 7, 9>>, RunFlush + 2), Segment(<<9, 8, 7, 9>>, 2)>>,
       desc |-> Descriptor(2, (RunFlush + 4) \div 2, Rgba, Linear)],
      [pixels |-> <<Segment(<<1, 2, 3>>, 300)>>,
       desc |-> Descriptor(300, 1, Rgb, Linear)],
      [pixels |-> <<Segment(<<0, 0, 0, 255>>, RunFlush + 8), Segment(<<0, 64, 0, 255>>, 2)>>,
       desc |-> Descriptor(RunFlush + 10, 1, Rgba, Srgb)] }

Zeros(len) == IF len = 0 THEN <<>> ELSE <<Segment(<<0>>, len)>>

\* Descriptors around the pixel count limit, with a buffer of the asserted length.
LimitDims ==
    { <<1, 399999999>>, <<1, 400000000>>, <<399999999, 1>>, <<400000000, 1>>,
      <<400000001, 1>>, <<20000, 19999>>, <<20000, 20000>>, <<19999, 20001>>,
      <<3, 133333332>>, <<3, 133333333>>, <<3, 133333334>>, <<7, 57142856>>,
      <<7, 57142857>>, <<0, 0>>, <<0, 5>>, <<5, 0>>, <<0, 400000000>> }

LimitInputs ==
    { [pixels |-> Zeros(d[1] * d[2] * ch), desc |-> Descriptor(d[1], d[2], ch, Srgb)] :
        d \in LimitDims, ch \in {Rgb, Rgba} }

\* Calls whose buffer may not have the asserted length, among them descriptors
\* whose byte count does not fit a usize.
MismatchInputs ==
    { [pixels |-> Zeros(len), desc |-> Descriptor(d[1], d[2], ch, Linear)] :
        len \in 0..7,
        d \in { <<0, 1>>, <<1, 0>>, <<1, 1>>, <<2, 1>>, <<65536, 65536>>, <<32768, 32768>>,
                <<65536, 16384>> },
        ch \in {Rgb, Rgba} }

EncodeInputs == SmallImages \cup TestImages \cup LongImages \cup LimitInputs \cup MismatchInputs

\* header + op stream of an encoder output
Body(b) == SubSeq(b, 1, Len(b) - QOI_PADDING_SIZE)

Replace(b, i, new) == SubSeq(b, 1, i - 1) \o new \o SubSeq(b, i + Len(new), Len(b))

\* The encoder's output: as it is, with the padding removed or replaced, cut
\* short, and with header fields overwritten.
PaddingStreams(b) ==
    { Body(b) \o t : t \in { <<>>, <<9>>, <<255, 255, 255, 255, 255, 255, 255, 255>> } }
PrefixStreams(b) == { SubSeq(b, 1, k) : k \in 0..(Len(b) - 1) }
MagicStreams(b) == { Replace(b, i, <<v>>) : i \in 1..4, v \in {0, 111} } \ {b}
ChannelStreams(b) == { Replace(b, 13, <<v>>) : v \in {0, 3, 4, 5, 255} }
ColorspaceStreams(b) == { Replace(b, 14, <<v>>) : v \in {0, 1, 2, 255} }
DimStreams(b) ==
    { Replace(b, 5, ToBeBytes(0)), Replace(b, 9, ToBeBytes(0)),
      Replace(b, 9, ToBeBytes(QOI_PIXELS_MAX)),
      Replace(Replace(b, 13, <<7>>), 14, <<7>>), Replace(Replace(b, 1, <<0>>), 13, <<7>>) }

DecodeInputs(b) ==
    { [data |-> s, channels |-> None] :
        s \in {b} \cup PaddingStreams(b) \cup PrefixStreams(b) \cup MagicStreams(b)
              \cup ChannelStreams(b) \cup ColorspaceStreams(b) \cup DimStreams(b) }
    \cup
    { [data |-> s, channels |-> Some(c)] :
        s \in {b} \cup PaddingStreams(b) \cup ChannelStreams(b), c \in {Rgb, Rgba} }

\* Two-pixel RGB images for the deltas: a previous pixel on the byte limits
\* and a current pixel at every combination of the distances that bound the
\* diff and luma ops, with the wraparound cases among them.
DeltaPrevious == { <<255, 255, 255>>, <<127, 128, 1>> }
DeltaSteps == { -128, -33, -32, -9, -8, -3, -2, -1, 0, 1, 2, 7, 8, 31, 32, 127 }

DeltaImages ==
    { [pixels |-> <<Segment(p \o << (p[1] + dr) % 256, (p[2] + dg) % 256, (p[3] + db) % 256 >>,
                           1)>>,
       desc |-> Descriptor(2, 1, Rgb, Linear)] :
        p \in DeltaPrevious, dr \in DeltaSteps, dg \in DeltaSteps, db \in DeltaSteps }

\* Files that no call of qoi_encode wrote (main.rs line 87 decodes whatever the
\* file holds): a header and up to MaxOps ops, among them an index op on a
\* slot never written, a pixel of slot 0, and runs.
FileOps ==
    { <<5>>, <<0>>, <<QOI_OP_RGBA, 0, 0, 0, 64>>, <<QOI_OP_RGB, 1, 2, 3>>, <<114>>,
      <<191, 240>>, <<193>> }

RECURSIVE OpStreams(_)
OpStreams(n) ==
    IF n = 0 THEN { <<>> }
    ELSE { s \o o : s \in OpStreams(n - 1), o \in FileOps }

FileInputs ==
    { [data |-> EncodeHeader(Descriptor(MaxOps, 1, Rgba, Srgb)) \o s, channels |-> c] :
        s \in UNION { OpStreams(n) : n \in 1..MaxOps }, c \in {None, Some(Rgb)} }

\* lines 236-308: the call of qoi_decode on one of the given inputs.
DecodeCall(inputs) ==
    /\ dec_pc = "call"
    /\ \E in \in inputs :
         LET h == DecodeHeader(in.data, in.channels)
         IN /\ data' = in.data
            /\ channels' = in.channels
            /\ IF h.err # ""
               THEN /\ dec_pc' = "err"
                    /\ dec_ret' = [NoDecRet EXCEPT !.tag = "Err", !.err = h.err]
                    /\ UNCHANGED <<cursor, dec_desc, dec_index, dec_pixel, dec_run,
                                   dec_pixels, dec_todo>>
               ELSE /\ dec_pc' = "loop"
                    /\ cursor' = QOI_HEADER_SIZE
                    /\ dec_desc' = h.desc
                    /\ dec_index' = ZeroIndex
                    /\ dec_pixel' = StartPixel
                    /\ dec_run' = 0
                    /\ dec_pixels' = <<>>
                    /\ dec_todo' = LoopCount(h.desc)
                    /\ UNCHANGED dec_ret
    /\ UNCHANGED enc_vars

\* The streams handed to qoi_decode are built from the encoder's output.
DecodeBegin == enc_pc = "done" /\ DecodeCall(DecodeInputs(bytes))

\* qoi_decode on the encoder's output as it is (the round trip of the fuzz target).
DecodeIntact == enc_pc = "done" /\ DecodeCall({[data |-> bytes, channels |-> None]})

\* qoi_decode on a file, with no call of qoi_encode before it.
DecodeFile == enc_pc = "idle" /\ DecodeCall(FileInputs)

DecodePixel ==
    /\ dec_pc = "loop"
    /\ dec_todo > 0
    /\ dec_desc.width * dec_desc.height <= MaxLoop
    /\ LET s == DecodeStep(data, DecState, dec_desc.channels)
       IN IF s.err # ""
          THEN /\ dec_pc' = "err"
               /\ dec_ret' = [NoDecRet EXCEPT !.tag = "Err", !.err = s.err]
               /\ UNCHANGED <<cursor, dec_index, dec_pixel, dec_run, dec_pixels, dec_todo>>
          ELSE /\ cursor' = s.cursor
               /\ dec_pixel' = s.pixel
               /\ dec_index' = s.index
               /\ dec_run' = s.run
               /\ dec_pixels' = s.pixels
               /\ dec_todo' = dec_todo - 1
               /\ UNCHANGED <<dec_pc, dec_ret>>
    /\ UNCHANGED <<data, channels, dec_desc>>
    /\ UNCHANGED enc_vars

\* line 360
DecodeEnd ==
    /\ dec_pc = "loop"
    /\ dec_todo = 0
    /\ dec_pc' = "done"
    /\ dec_ret' = [tag |-> "Ok", pixels |-> dec_pixels, desc |-> dec_desc, err |-> ""]
    /\ UNCHANGED <<data, cursor, channels, dec_desc, dec_index, dec_pixel, dec_run,
                   dec_pixels, dec_todo>>
    /\ UNCHANGED enc_vars

----------------------------------------------------------------------------
\* The state before the calls: in is the input of qoi_encode, pc is "call",
\* or "idle" when qoi_encode is not called.
Start(in, pc) ==
    /\ pixels = in.pixels
    /\ desc = in.desc
    /\ enc_pc = pc
    /\ bytes = <<>>
    /\ pixel_previous = StartPixel
    /\ index = ZeroIndex
    /\ run = 0
    /\ pixel_pos = 0
    /\ enc_ret = NoRet
    /\ data = <<>>
    /\ cursor = 0
    /\ channels = None
    /\ dec_pc = "call"
    /\ dec_desc = NoDesc
    /\ dec_index = ZeroIndex
    /\ dec_pixel = StartPixel
    /\ dec_run = 0
    /\ dec_pixels = <<>>
    /\ dec_todo = 0
    /\ dec_ret = NoDecRet

Init ==
    \/ \E in \in EncodeInputs : Start(in, "call")
    \/ Start([pixels |-> <<>>, desc |-> NoDesc], "idle")

Next ==
    \/ EncodeBegin
    \/ EncodePixel
    \/ EncodeEnd
    \/ DecodeBegin
    \/ DecodeFile
    \/ DecodePixel
    \/ DecodeEnd

Spec == Init /\ [][Next]_vars

\* The round trip of the two-pixel images of the deltas.
InitDelta == \E in \in DeltaImages : Start(in, "call")

NextDelta ==
    \/ EncodeBegin
    \/ EncodePixel
    \/ EncodeEnd
    \/ DecodeIntact
    \/ DecodePixel
    \/ DecodeEnd

DeltaSpec == InitDelta /\ [][NextDelta]_vars

----------------------------------------------------------------------------
(* The properties *)

\* The decoder was handed the encoder's output unchanged.
Intact == enc_pc = "done" /\ dec_pc # "call" /\ data = bytes

\* out is the pixel buffer buf, byte for byte.
SameBuffer(out, buf) ==
    /\ Len(out) = BufLen(buf)
    /\ \A i \in 1..Len(out) : out[i] = BufAt(buf, i - 1)

\* len == width * height * channels in the integers (a buffer is shorter than 2^31 bytes).
LengthMatches(len, d) ==
    IF d.width = 0 \/ d.height = 0 THEN len = 0
    ELSE IF d.height > 2147483647 \div d.width THEN FALSE
    ELSE IF d.width * d.height > 2147483647 \div d.channels THEN FALSE
    ELSE len = d.width * d.height * d.channels

\* C1: round trip. Decoding, with no forced channel mode, the stream that
\* qoi_encode returned for a buffer P and a descriptor D neither fails nor stops
\* short: it returns exactly P and a descriptor equal to D.
C1_RoundTrip ==
    (Intact /\ channels = None) =>
        /\ dec_pc # "err"
        /\ dec_pc = "done" =>
             /\ dec_ret.tag = "Ok"
             /\ SameBuffer(dec_ret.pixels, pixels)
             /\ dec_ret.desc = desc

C1_Witness ==
    /\ Intact /\ channels = None /\ dec_pc = "done"
    /\ desc.width = 5 /\ SameBuffer(dec_ret.pixels, pixels)

\* C2: qoi_encode with width = 0 or height = 0 and the empty buffer returns the
\* zero-dimension error and writes no byte.
C2_ZeroDimension ==
    (enc_pc \notin {"call", "idle"} /\ (desc.width = 0 \/ desc.height = 0) /\ PixLen = 0) =>
        /\ enc_pc = "err"
        /\ enc_ret = [tag |-> "Err", bytes |-> <<>>, err |-> "zero width or height"]
        /\ bytes = <<>>

C2_Witness ==
    /\ enc_pc = "err" /\ desc.width = 5 /\ desc.height = 0 /\ PixLen = 0
    /\ enc_ret.err = "zero width or height"

\* The call satisfies the length precondition with nonzero dimensions.
ValidCall ==
    /\ enc_pc # "call" /\ desc.width # 0 /\ desc.height # 0
    /\ LengthMatches(PixLen, desc)

FormatErrors ==
    {"unexpected header", "unexpected number of color channels", "unexpected colorspace"}

FormatFailure ==
    /\ dec_pc = "err"
    /\ dec_ret.tag = "Err" /\ dec_ret.err \in FormatErrors
    /\ dec_ret.pixels = <<>>

\* C4: qoi_decode returns a format error and no pixels when the first four
\* bytes are not "qoif", when no mode is forced and the channel byte is neither
\* 3 nor 4, and when the colorspace byte is neither 0 nor 1.
C4_FormatErrors ==
    dec_pc # "call" =>
        /\ (Len(data) >= 4 /\ SubSeq(data, 1, 4) # <<113, 111, 105, 102>>) =>
             (FormatFailure /\ dec_ret.err = "unexpected header")
        /\ (channels = None /\ Len(data) >= 13 /\ data[13] \notin {3, 4}) => FormatFailure
        /\ (Len(data) >= 14 /\ data[14] \notin {0, 1}) => FormatFailure

C4_Witness ==
    /\ dec_pc = "err" /\ Len(data) >= 14 /\ SubSeq(data, 1, 4) = QOI_MAGIC
    /\ data[13] \in {3, 4} /\ data[14] = 2
    /\ dec_ret.err = "unexpected colorspace"

\* The stream is a proper prefix of header + op stream of the encoder's output.
Truncated ==
    /\ enc_pc = "done" /\ dec_pc # "call"
    /\ Len(data) < Len(bytes) - QOI_PADDING_SIZE
    /\ data = SubSeq(bytes, 1, Len(data))

\* C5: on a stream that ends before the header or the op stream does,
\* qoi_decode never returns pixels: it fails with the error of the short read,
\* whatever it had decoded before.
C5_Truncated ==
    Truncated =>
        /\ dec_pc \in {"loop", "err"}
        /\ dec_ret.tag # "Ok"
        /\ dec_pc = "loop" => dec_todo > 0
        /\ dec_pc = "err" => dec_ret = [NoDecRet EXCEPT !.tag = "Err", !.err = EofError]

C5_Witness ==
    /\ Truncated /\ dec_pc = "err" /\ dec_ret.err = EofError
    /\ Len(dec_pixels) >= 3 /\ dec_ret.pixels = <<>>

\* The stream is the encoder's output with any channel byte.
SameButChannel ==
    /\ enc_pc = "done" /\ dec_pc # "call"
    /\ Len(data) = Len(bytes)
    /\ \A i \in (1..Len(bytes)) \ {13} : data[i] = bytes[i]

\* C6: with a forced channel mode the channel byte is read and its value
\* ignored: any value is accepted, the ops are read from offset 14 to the end
\* of the op stream, the buffer returned has width * height * forced bytes and
\* the descriptor returned carries the forced mode.
C6_ForcedChannels ==
    (SameButChannel /\ channels # None) =>
        /\ dec_pc # "err"
        /\ dec_desc = [desc EXCEPT !.channels = Unwrap(channels)]
        /\ (dec_pc = "loop" /\ dec_pixels = <<>>) => cursor = 14
        /\ Len(dec_pixels) = (desc.width * desc.height - dec_todo) * Unwrap(channels)
        /\ dec_pc = "done" =>
             /\ cursor = Len(bytes) - 8
             /\ dec_ret.tag = "Ok"
             /\ Len(dec_ret.pixels) = desc.width * desc.height * Unwrap(channels)
             /\ dec_ret.desc = [desc EXCEPT !.channels = Unwrap(channels)]

C6_Witness ==
    /\ SameButChannel /\ channels = Some(Rgb) /\ desc.channels = Rgba /\ data[13] = 255
    /\ dec_pc = "done" /\ Len(dec_ret.pixels) = 6

\* The stream has the header and the op stream of the encoder's output.
SameBody ==
    /\ enc_pc = "done" /\ dec_pc # "call"
    /\ Len(data) >= Len(bytes) - 8
    /\ SubSeq(data, 1, Len(bytes) - 8) = SubSeq(bytes, 1, Len(bytes) - 8)

\* C7: qoi_decode stops after the op of the last pixel slot and never reads
\* the padding: with the padding of an encoder output removed or replaced the
\* decode reads exactly header + op stream and returns the same pixels.
C7_PaddingUnread ==
    SameBody =>
        /\ dec_pc # "err"
        /\ cursor <= Len(bytes) - 8
        /\ dec_pc = "done" =>
             /\ cursor = Len(bytes) - 8
             /\ channels = None =>
                  /\ dec_ret.tag = "Ok"
                  /\ SameBuffer(dec_ret.pixels, pixels)
                  /\ dec_ret.desc = desc

C7_Witness ==
    /\ SameBody /\ dec_pc = "done" /\ channels = None
    /\ Len(data) = Len(bytes) - 8 /\ cursor = Len(data)
    /\ Len(dec_ret.pixels) >= 6

BigEndian(b, i) == ((b[i] * 256 + b[i + 1]) * 256 + b[i + 2]) * 256 + b[i + 3]

\* C8: a stream returned by qoi_encode is "qoif", the width and the height as
\* 4 big-endian bytes each, the channel byte, the colorspace byte, a nonempty
\* op stream and the padding 00 00 00 00 00 00 00 01.
C8_Layout ==
    enc_pc = "done" =>
        LET b == enc_ret.bytes
        IN /\ enc_ret.tag = "Ok" /\ b = bytes
           /\ Len(b) > 14 + 8
           /\ \A i \in 1..Len(b) : b[i] \in 0..255
           /\ SubSeq(b, 1, 4) = <<113, 111, 105, 102>>
           /\ BigEndian(b, 5) = desc.width
           /\ BigEndian(b, 9) = desc.height
           /\ b[13] = desc.channels /\ b[13] \in {3, 4}
           /\ b[14] = desc.colorspace /\ b[14] \in {0, 1}
           /\ SubSeq(b, Len(b) - 7, Len(b)) = <<0, 0, 0, 0, 0, 0, 0, 1>>

C8_Witness ==
    /\ enc_pc = "done" /\ desc.width = 300
    /\ SubSeq(enc_ret.bytes, 5, 8) = <<0, 0, 1, 44>>

\* C9 as stated: a call whose buffer length is not width * height * channels
\* ends in a panic, with neither a stream nor an error value.
C9_LengthAssertion ==
    (enc_pc # "call" /\ ~LengthMatches(PixLen, desc)) =>
        (enc_pc = "panic" /\ enc_ret.tag = "panic")

\* The encoder's previous pixel, cache and run counter after k pixels.
RECURSIVE EncoderAfter(_)
EncoderAfter(k) ==
    IF k = 0 THEN [prev |-> StartPixel, index |-> ZeroIndex, run |-> 0]
    ELSE LET s == EncoderAfter(k - 1)
             pos == (k - 1) * desc.channels
             pixel == PixelAt(pixels, pos, desc.channels)
             e == EncodeStep(pixel, s.prev, s.index, s.run, pos = PixelEnd(pixels, desc))
         IN [prev |-> pixel, index |-> e.index, run |-> e.run]

\* The pixel slots the decoder has filled.
Decoded == desc.width * desc.height - dec_todo

\* C10 as stated: decoding an encoder output, the decoder's pixel and cache
\* after pixel k are the encoder's previous pixel and cache after pixel k.
C10_StateSymmetry ==
    (Intact /\ channels = None /\ dec_pc \in {"loop", "done"} /\ Decoded >= 1) =>
        /\ dec_pixel = EncoderAfter(Decoded).prev
        /\ dec_index = EncoderAfter(Decoded).index

----------------------------------------------------------------------------
(* The steps of the encoder loop *)

\* An iteration of the encoder loop is taken: the pixel it reads, the bytes it
\* writes, and of these the bytes after the flush of a pending run.
EncodeIteration == enc_pc = "loop" /\ pixel_pos' = pixel_pos + desc.channels /\ pixel_pos < PixLen
CurrentPixel == PixelAt(pixels, pixel_pos, desc.channels)
Written == SubSeq(bytes', Len(bytes) + 1, Len(bytes'))
Flushed == IF run > 0 /\ CurrentPixel # pixel_previous THEN 1 ELSE 0
OpWritten == SubSeq(Written, Flushed + 1, Len(Written))

\* The distance from y to x modulo 256, as a number of -128..127.
Delta(x, y) == LET d == (x - y + 256) % 256 IN IF d >= 128 THEN d - 256 ELSE d

SlotOf(p) == (3 * p.r + 5 * p.g + 7 * p.b + 11 * p.a) % 64

IsRunByte(b) == b \in 192..253

\* The op of the priority list for a pixel that differs from the previous one.
PriorityOp(pixel, prev, idx) ==
    LET dr == Delta(pixel.r, prev.r)
        dg == Delta(pixel.g, prev.g)
        db == Delta(pixel.b, prev.b)
    IN IF idx[SlotOf(pixel)] = pixel THEN <<SlotOf(pixel)>>
       ELSE IF pixel.a # prev.a THEN <<255, pixel.r, pixel.g, pixel.b, pixel.a>>
       ELSE IF {dr, dg, db} \subseteq -2..1
       THEN <<64 + 16 * (dr + 2) + 4 * (dg + 2) + (db + 2)>>
       ELSE IF dg \in -32..31 /\ {dr - dg, db - dg} \subseteq -8..7
       THEN <<128 + (dg + 32), 16 * (dr - dg + 8) + (db - dg + 8)>>
       ELSE <<254, pixel.r, pixel.g, pixel.b>>

\* C11: for each pixel the encoder chooses its op in strict priority order
\* against the current previous pixel and cache: a pixel equal to the previous
\* one goes to the run (no byte, or the run byte); else the cache index op if
\* its slot holds it; else, alpha unchanged, diff, else luma, else RGB; and RGBA
\* when alpha changed. A cache hit within the diff bounds is the index op.
C11_OpPriority ==
    [][EncodeIteration =>
         IF CurrentPixel = pixel_previous
         THEN Written = <<>> \/ (Len(Written) = 1 /\ IsRunByte(Written[1]))
         ELSE OpWritten = PriorityOp(CurrentPixel, pixel_previous, index)]_vars

\* The third pixel of the second test image is in the cache and one step of
\* blue from the second: the byte written for it is the index op of slot 60.
C11_Witness ==
    /\ enc_pc = "loop"
    /\ pixels = <<Segment(<<0, 0, 1, 0, 0, 0, 0, 0, 1>>, 1)>>
    /\ pixel_pos = 9
    /\ pixel_previous = QoiRGBA(0, 0, 1, 255)
    /\ Delta(pixel_previous.b, PixelAt(pixels, 3, desc.channels).b) = 1
    /\ index[SlotOf(pixel_previous)] = pixel_previous
    /\ bytes[Len(bytes)] = 60
    /\ Len(bytes) = QOI_HEADER_SIZE + 3

\* The op stream written so far (after the header, before the padding).
OpStream ==
    SubSeq(bytes, QOI_HEADER_SIZE + 1,
           IF enc_pc = "done" THEN Len(bytes) - QOI_PADDING_SIZE ELSE Len(bytes))

\* C12: the encoder's run counter never exceeds 62 and every run byte it
\* writes lies in 0xC0..0xFD: a pixel equal to the previous one writes nothing
\* and counts, or, as the 62nd of the run or the last pixel, writes the one
\* byte 0xC0 + run and resets the counter; a differing pixel after a pending
\* run writes the run byte 0xC0 + run - 1 first and its own op right after it.
\* For 62 pixels equal to their predecessor and one differing pixel the op
\* stream is the run byte 0xFD followed by the op of the differing pixel.
C12_RunBytes ==
    /\ [](run \in 0..62 /\ (enc_pc \in {"loop", "done"} => run < RunFlush))
    /\ [][EncodeIteration =>
            IF CurrentPixel = pixel_previous
            THEN IF run + 1 = 62 \/ pixel_pos + desc.channels = PixLen
                 THEN Written = <<192 + run>> /\ IsRunByte(Written[1]) /\ run' = 0
                 ELSE Written = <<>> /\ run' = run + 1
            ELSE /\ run' = 0
                 /\ Len(Written) = Flushed + Len(PriorityOp(CurrentPixel, pixel_previous, index))
                 /\ run > 0 => Written[1] = 192 + run - 1 /\ IsRunByte(Written[1])]_vars
    /\ []((enc_pc = "done" /\ pixels = <<Segment(<<7, 7, 7>>, 63), Segment(<<9, 8, 7>>, 1)>>)
            => OpStream = <<167, 136, 253, 161, 151>>)

\* The first long image: a pixel, 62 pixels equal to it, a differing pixel.
C12_Witness ==
    /\ enc_pc = "done"
    /\ pixels = <<Segment(<<7, 7, 7>>, 63), Segment(<<9, 8, 7>>, 1)>>
    /\ desc.width = 64
    /\ OpStream[3] = 192 + 61
    /\ run = 0

\* The pixels the ops of s cover, from the op at position i on: a run op
\* covers its run length, any other op one pixel.
RECURSIVE Covered(_, _)
Covered(s, i) ==
    IF i > Len(s) THEN 0
    ELSE IF s[i] = 254 THEN 1 + Covered(s, i + 4)
    ELSE IF s[i] = 255 THEN 1 + Covered(s, i + 5)
    ELSE IF s[i] >= 192 THEN (s[i] - 192 + 1) + Covered(s, i + 1)
    ELSE IF s[i] >= 128 THEN 1 + Covered(s, i + 2)
    ELSE 1 + Covered(s, i + 1)

\* The last pixel of the buffer continues a run.
LastContinuesRun ==
    LET ch == desc.channels
        last == PixelAt(pixels, PixLen - ch, ch)
    IN IF PixLen = ch THEN last = StartPixel
       ELSE last = PixelAt(pixels, PixLen - 2 * ch, ch)

\* C13: in every iteration the pixels covered by the ops written so far and
\* the pending run add up to the pixels read; when qoi_encode returns no run
\* is pending, the ops cover width * height pixels, the output ends with the
\* padding, and if the last pixel continues a run the byte before the padding
\* is a run byte.
C13_RunFlushAtEnd ==
    /\ enc_pc = "loop" => Covered(OpStream, 1) + run = pixel_pos \div desc.channels
    /\ enc_pc = "done" =>
         /\ run = 0
         /\ Covered(OpStream, 1) = desc.width * desc.height
         /\ SubSeq(bytes, Len(bytes) - QOI_PADDING_SIZE + 1, Len(bytes)) = QOI_PADDING
         /\ LastContinuesRun => IsRunByte(OpStream[Len(OpStream)])

\* The image of 300 equal pixels: one op, four full runs, and the run of the
\* last 51 pixels written at the end of the buffer.
C13_Witness ==
    /\ enc_pc = "done"
    /\ desc.width = 300
    /\ LastContinuesRun
    /\ Len(OpStream) = 7
    /\ OpStream[7] = 192 + 50
    /\ Covered(OpStream, 1) = 300

\* The iteration writes a diff or a luma op for a pixel with the alpha of the
\* previous pixel.
DeltaOpWritten ==
    /\ EncodeIteration
    /\ CurrentPixel # pixel_previous
    /\ CurrentPixel.a = pixel_previous.a
    /\ Len(OpWritten) \in {1, 2}
    /\ OpWritten[1] \in 64..191

\* C14: the diff or luma op the encoder writes for a pixel with the alpha of
\* the previous pixel, applied by the decoder to that previous pixel, gives the
\* pixel back; the deltas the decoder takes from the op are the distances of
\* the channels modulo 256 as numbers of -128..127, within [-2,1] for a diff op
\* and with dg in [-32,31], dr-dg and db-dg in [-8,7] for a luma op; and the
\* decoder returns the buffer of every such image.
C14_WrapDeltas ==
    /\ [][DeltaOpWritten =>
            LET op == OpWritten
                true == [dr |-> Delta(CurrentPixel.r, pixel_previous.r),
                         dg |-> Delta(CurrentPixel.g, pixel_previous.g),
                         db |-> Delta(CurrentPixel.b, pixel_previous.b)]
                read == IF op[1] < 128 THEN DiffDeltas(op[1]) ELSE LumaDeltas(op[1], op[2])
            IN /\ DecodeOp(op[1], Tail(op), pixel_previous, index) = CurrentPixel
               /\ read = true
               /\ {read.dr, read.dg, read.db} \subseteq -128..127
               /\ op[1] < 128 => Len(op) = 1 /\ {true.dr, true.dg, true.db} \subseteq -2..1
               /\ op[1] >= 128 =>
                    /\ Len(op) = 2
                    /\ true.dg \in -32..31
                    /\ {true.dr - true.dg, true.db - true.dg} \subseteq -8..7]_vars
    /\ []((Intact /\ dec_pc = "done") => SameBuffer(dec_ret.pixels, pixels))

\* White, then black: both pixels are one step from their predecessor across
\* the byte limit (0 -> 255 and 255 -> 0), written as the diff ops 0x55, 0x7F.
C14_Witness ==
    /\ pixels = <<Segment(<<255, 255, 255, 0, 0, 0>>, 1)>>
    /\ enc_pc = "done"
    /\ OpStream = <<85, 127>>
    /\ Intact /\ dec_pc = "done"
    /\ dec_ret.pixels = <<255, 255, 255, 0, 0, 0>>

----------------------------------------------------------------------------
(* The steps of the decoder loop *)

\* An iteration of the decoder loop is taken; it reads an op, whose first
\* byte is OpRead, unless it replays the pixel of a run in flight.
DecodeIteration == dec_pc = "loop" /\ dec_todo' = dec_todo - 1
ReadsOp == DecodeIteration /\ dec_run = 0
OpRead == data[cursor + 1]

\* C15 as stated: the iterations of the decoder that read a run op or replay
\* the pixel of a run in flight leave all 64 cache slots unchanged.
C15_RunKeepsCache ==
    [][(DecodeIteration /\ (dec_run > 0 \/ IsRunByte(OpRead))) => dec_index' = dec_index]_vars

ZeroPixel == QoiRGBA(0, 0, 0, 0)

\* C16 as stated: on every stream, the iteration of the decoder that reads a
\* cache-index op leaves all 64 cache slots unchanged.
C16_Original ==
    [][(ReadsOp /\ OpRead < 64) => dec_index' = dec_index]_vars

\* C16: the iteration that reads a cache-index op makes the pixel of the slot
\* read the current pixel and writes it to the slot of its hash. On a stream
\* of qoi_encode (whole, cut short, or with another header or padding) that is
\* the slot read and the cache is unchanged. On any stream the cache changes
\* only when the slot read is a slot other than 0 that still holds the initial
\* (0,0,0,0): then slot 0, if it held another pixel, is set to (0,0,0,0).
C16_IndexRestores ==
    [][(ReadsOp /\ OpRead < 64) =>
         LET p == dec_index[OpRead]
         IN /\ dec_pixel' = p
            /\ dec_index' = [dec_index EXCEPT ![SlotOf(p)] = p]
            /\ enc_pc = "done" => dec_index' = dec_index
            /\ dec_index' # dec_index =>
                 /\ p = ZeroPixel /\ OpRead # 0 /\ dec_index[0] # ZeroPixel
                 /\ dec_index' = [dec_index EXCEPT ![0] = ZeroPixel]]_vars

\* The decoder has read the index op of the third pixel of the second test
\* image: slot 60 holds the pixel it yields.
C16_Witness ==
    /\ Intact /\ channels = None /\ dec_pc = "loop"
    /\ pixels = <<Segment(<<0, 0, 1, 0, 0, 0, 0, 0, 1>>, 1)>>
    /\ Decoded = 3
    /\ cursor = QOI_HEADER_SIZE + 3
    /\ data[cursor] = 60
    /\ dec_pixel = QoiRGBA(0, 0, 1, 255)
    /\ dec_index[60] = dec_pixel

\* C17: an iteration of the encoder loop changes the cache only for a pixel
\* that differs from the previous one and is not in its slot: then exactly
\* slot hash(pixel) mod 64 is overwritten with the pixel, whichever of diff,
\* luma, RGB and RGBA is written; a run pixel and a cache hit leave all 64
\* slots unchanged.
C17_EncoderCacheFrame ==
    [][EncodeIteration =>
         IF CurrentPixel = pixel_previous \/ index[SlotOf(CurrentPixel)] = CurrentPixel
         THEN index' = index
         ELSE /\ index' = [index EXCEPT ![SlotOf(CurrentPixel)] = CurrentPixel]
              /\ index' # index
              /\ OpWritten[1] \in (64..191) \cup {254, 255}]_vars

\* A first pixel with alpha 128: written as the RGBA op and stored in its slot.
C17_Witness ==
    /\ enc_pc = "loop"
    /\ pixel_pos = 4
    /\ pixel_previous = QoiRGBA(128, 7, 200, 128)
    /\ OpStream = <<255, 128, 7, 200, 128>>
    /\ index = [ZeroIndex EXCEPT ![SlotOf(pixel_previous)] = pixel_previous]

\* Each slot holds the initial pixel or a pixel of its hash.
SlotsConsistent(idx) ==
    /\ DOMAIN idx = 0..63
    /\ \A i \in 0..63 : idx[i] = ZeroPixel \/ SlotOf(idx[i]) = i

\* The decoder is about to read an op that the code takes for a cache-index op.
IndexOpNext ==
    /\ dec_pc = "loop" /\ dec_todo > 0 /\ dec_run = 0 /\ cursor < Len(data)
    /\ OpRead \notin {QOI_OP_RGB, QOI_OP_RGBA}
    /\ And8(OpRead, QOI_MASK) = QOI_OP_INDEX

\* C18: at every point of an encode call and of a decode call on any stream,
\* each cache slot i holds (0,0,0,0) or a pixel with
\* (3r + 5g + 7b + 11a) mod 64 = i, and the byte of an index op, with which the
\* decoder reads the cache, is in 0..63.
C18_SlotInvariant ==
    /\ SlotsConsistent(index)
    /\ SlotsConsistent(dec_index)
    /\ IndexOpNext => OpRead \in 0..63

\* Decoding a file: slot 0 holds (0,0,0,64), of hash 704, and the next op
\* reads slot 5.
C18_Witness ==
    /\ enc_pc = "idle"
    /\ dec_index[0] = QoiRGBA(0, 0, 0, 64)
    /\ IndexOpNext /\ OpRead = 5

\* The positions of the first bytes of the ops of s, from the op at position i on.
RECURSIVE OpHeads(_, _)
OpHeads(s, i) ==
    IF i > Len(s) THEN {}
    ELSE {i} \cup OpHeads(s, i + 1 + (IF s[i] = 254 THEN 3
                                      ELSE IF s[i] = 255 THEN 4
                                      ELSE IF s[i] \in 128..191 THEN 1
                                      ELSE 0))

\* qoi_decode with forced channel mode RGBA on the output of qoi_encode for an
\* RGB image.
ForcedRgba == Intact /\ channels = Some(Rgba) /\ desc.channels = Rgb

\* C19: in RGB mode the encoder writes no RGBA op; decoding its output with
\* forced mode RGBA never fails, the current pixel always has alpha 255 (so no
\* index op yields the initial (0,0,0,0) of a slot), and the buffer returned
\* holds for every pixel the r, g, b bytes of the image and alpha 255.
C19_ForcedRgba ==
    /\ (enc_pc \in {"loop", "done"} /\ desc.channels = Rgb) =>
          \A i \in OpHeads(OpStream, 1) : OpStream[i] # QOI_OP_RGBA
    /\ ForcedRgba =>
          /\ dec_pc # "err"
          /\ dec_pixel.a = 255
          /\ dec_pixel # ZeroPixel
          /\ dec_pc = "done" =>
               /\ dec_ret.tag = "Ok"
               /\ dec_ret.desc = [desc EXCEPT !.channels = Rgba]
               /\ Len(dec_ret.pixels) = 4 * desc.width * desc.height
               /\ \A k \in 0..(desc.width * desc.height - 1) :
                     /\ dec_ret.pixels[4 * k + 1] = BufAt(pixels, 3 * k)
                     /\ dec_ret.pixels[4 * k + 2] = BufAt(pixels, 3 * k + 1)
                     /\ dec_ret.pixels[4 * k + 3] = BufAt(pixels, 3 * k + 2)
                     /\ dec_ret.pixels[4 * k + 4] = 255

\* The first test image, whose fourth pixel is the index op 50, decoded with
\* forced mode RGBA.
C19_Witness ==
    /\ ForcedRgba /\ dec_pc = "done"
    /\ desc.width = 5
    /\ OpStream[10] = 50 /\ 10 \in OpHeads(OpStream, 1)
    /\ SubSeq(dec_ret.pixels, 13, 16) = <<255, 0, 0, 255>>
    /\ Len(dec_ret.pixels) = 20

\* C20: for every accepted input the op stream is at most
\* width * height * (channels + 1) bytes long and the output never exceeds the
\* reserved capacity max_size: after each iteration the ops written, and the
\* byte a pending run will take, stay within channels + 1 bytes per pixel read.
C20_OutputBound ==
    enc_pc \in {"loop", "done"} =>
        /\ Len(OpStream) <= desc.width * desc.height * (desc.channels + 1)
        /\ Len(bytes) <= MaxSize(desc)
        /\ enc_pc = "loop" =>
             Len(OpStream) + (IF run > 0 THEN 1 ELSE 0)
                 <= (pixel_pos \div desc.channels) * (desc.channels + 1)

\* Two RGBA pixels, each written as the five-byte RGBA op: the output fills
\* the reserved capacity.
C20_Witness ==
    /\ enc_pc = "done"
    /\ desc.channels = Rgba /\ desc.width * desc.height = 2
    /\ Len(OpStream) = 10
    /\ Len(bytes) = MaxSize(desc)

====
